---- MODULE Spec2Model ----
(***************************************************************************)
(* Blob / KZG adapter layer (beacon_chain::kzg_utils) and the blob sidecar *)
(* data model (types::blob_sidecar).                                       *)
(*                                                                         *)
(* Every function of the two files is pure, so the state of the machine is *)
(* the record of the last call: which operation ran, on which arguments,   *)
(* what it returned, which engine functions it invoked (in order), which   *)
(* branch it took, whether it panicked, and (for random_valid) the local   *)
(* buffer blob_bytes as the canonicalisation loop left it.  The commitment engine (the kzg crate) and        *)
(* EthSpec::blob_from_bytes are not part of the two files; they are        *)
(* modelled as an ideal (perfectly binding) commitment scheme.             *)
(***************************************************************************)
EXTENDS Integers, Sequences, FiniteSets, TLC

VARIABLES op, args, result, calls, path, panicked, blob_bytes

vars == <<op, args, result, calls, path, panicked, blob_bytes>>

(***************************************************************************)
(* Sizes.  The presets of the program are 4096 x 32 (mainnet) and 4 x 32   *)
(* (minimal); the model scales them down.                                  *)
(***************************************************************************)
FIELD_ELEMENTS_PER_BLOB == 2
BYTES_PER_FIELD_ELEMENT == 2
BYTES_PER_BLOB == FIELD_ELEMENTS_PER_BLOB * BYTES_PER_FIELD_ELEMENT

\* Longest sequence handed to validate_blobs.
MaxBatch == 2
\* Largest blob index used in the comparisons.
MaxIndex == 2

\* usize::MAX of the model's machine word (TLC integers are 32 bit wide).
UsizeMax == 2147483647

(***************************************************************************)
(* Result<T, E> and Option<T>.                                             *)
(***************************************************************************)
Ok(v) == [ok |-> TRUE, val |-> v]
Err(e) == [ok |-> FALSE, err |-> e]
Some(v) == [some |-> TRUE, v |-> v]
None == [some |-> FALSE]

\* slice::get(i), zero based.
Get(s, i) == IF i < Len(s) THEN Some(s[i + 1]) ELSE None

\* usize::checked_mul
checked_mul(a, b) == IF a * b > UsizeMax THEN None ELSE Some(a * b)

(***************************************************************************)
(* The commitment engine.                                                  *)
(***************************************************************************)
\* The leading bytes of the BLS12-381 scalar field modulus
\* 0x73eda753299d7d483339d80809a1d80553bda402fffe5bfeffffffff00000001,
\* big endian; a field element of the scaled model is compared with the
\* first BYTES_PER_FIELD_ELEMENT of them.
BLS_MODULUS_BYTES ==
    <<115, 237, 167, 83, 41, 157, 125, 72, 51, 57, 216, 8, 9, 161, 216, 5>>

\* The i-th (zero based) field element of a blob: BYTES_PER_FIELD_ELEMENT bytes.
FieldElement(bytes, i) ==
    SubSeq(bytes, i * BYTES_PER_FIELD_ELEMENT + 1, (i + 1) * BYTES_PER_FIELD_ELEMENT)

\* Big-endian comparison of a field element with the modulus: a < modulus.
RECURSIVE BytesLess(_, _, _)
BytesLess(a, m, k) ==
    IF k > Len(a) THEN FALSE
    ELSE IF a[k] < m[k] THEN TRUE
    ELSE IF a[k] > m[k] THEN FALSE
    ELSE BytesLess(a, m, k + 1)

BelowModulus(fe) == BytesLess(fe, BLS_MODULUS_BYTES, 1)

\* Every field element of an engine blob is canonical.
CanonicalBlob(kblob) ==
    \A i \in 0 .. (FIELD_ELEMENTS_PER_BLOB - 1) : BelowModulus(FieldElement(kblob, i))

\* Engine errors.
InvalidBytesLength(n) == [kind |-> "InputSizeError", got |-> n]
BadArgs == [kind |-> "EngineError", got |-> 0]
InternalFailure == [kind |-> "EngineError", got |-> 1]
MismatchLength == [kind |-> "LengthMismatchError", got |-> 0]

\* Commitments and proofs: well formed (wf) encodings name what they commit
\* to; a malformed encoding is one the engine cannot decode.
CommitmentOf(kblob) == [wf |-> TRUE, blob |-> kblob]
MalformedCommitment == [wf |-> FALSE, blob |-> <<>>]
ProofOf(kblob, commitment) == [wf |-> TRUE, blob |-> kblob, c |-> commitment.blob]
MalformedProof == [wf |-> FALSE, blob |-> <<>>, c |-> <<>>]

\* Kzg::blob_to_kzg_commitment
Kzg_blob_to_kzg_commitment(fault, kblob) ==
    IF fault = "commitment" THEN Err(InternalFailure)
    ELSE IF ~CanonicalBlob(kblob) THEN Err(BadArgs)
    ELSE Ok(CommitmentOf(kblob))

\* Kzg::compute_blob_kzg_proof
Kzg_compute_blob_kzg_proof(fault, kblob, commitment) ==
    IF fault = "proof" THEN Err(InternalFailure)
    ELSE IF ~commitment.wf \/ ~CanonicalBlob(kblob) THEN Err(BadArgs)
    ELSE Ok(ProofOf(kblob, commitment))

\* Kzg::compute_kzg_proof: the opening of the blob's polynomial at z.
Kzg_compute_kzg_proof(kblob, z) ==
    IF ~CanonicalBlob(kblob) THEN Err(BadArgs)
    ELSE Ok(<<[wf |-> TRUE, blob |-> kblob, c |-> <<z>>], [p |-> kblob, at |-> z]>>)

\* The cryptographic check of one well formed triplet.
TripletValid(kblob, commitment, proof) ==
    /\ commitment = CommitmentOf(kblob)
    /\ proof = ProofOf(kblob, commitment)

\* Kzg::verify_blob_kzg_proof
Kzg_verify_blob_kzg_proof(kblob, commitment, proof) ==
    IF ~commitment.wf \/ ~proof.wf \/ ~CanonicalBlob(kblob) THEN Err(BadArgs)
    ELSE Ok(TripletValid(kblob, commitment, proof))

\* Kzg::verify_blob_kzg_proof_batch
Kzg_verify_blob_kzg_proof_batch(kblobs, commitments, proofs) ==
    IF Len(kblobs) # Len(commitments) \/ Len(kblobs) # Len(proofs)
    THEN Err(MismatchLength)
    ELSE IF \E i \in 1 .. Len(kblobs) :
                ~commitments[i].wf \/ ~proofs[i].wf \/ ~CanonicalBlob(kblobs[i])
    THEN Err(BadArgs)
    ELSE Ok(\A i \in 1 .. Len(kblobs) : TripletValid(kblobs[i], commitments[i], proofs[i]))

(***************************************************************************)
(* kzg_utils.rs                                                            *)
(***************************************************************************)
\* EthSpec::blob_from_bytes: a length check, no field element validation.
blob_from_bytes(bytes) ==
    IF Len(bytes) = BYTES_PER_BLOB THEN Ok(bytes) ELSE Err(InvalidBytesLength(Len(bytes)))

ssz_blob_to_crypto_blob(blob) == blob_from_bytes(blob)

\* What a call returns: its result, the engine functions it invoked, its branch.
Ret(res, engine, branch) == [res |-> res, calls |-> engine, path |-> branch]

validate_blob_FalseOnBadBlob(blob, kzg_commitment, kzg_proof) ==
    LET conv == ssz_blob_to_crypto_blob(blob) IN
    IF ~conv.ok THEN Ret(Ok(FALSE), <<>>, "convert")
    ELSE Ret(Kzg_verify_blob_kzg_proof(conv.val, kzg_commitment, kzg_proof),
             <<"verify_blob_kzg_proof">>, "single")

validate_blob(blob, kzg_commitment, kzg_proof) ==
    LET conv == ssz_blob_to_crypto_blob(blob) IN
    IF ~conv.ok THEN Ret(Err(conv.err), <<>>, "convert")
    ELSE Ret(Kzg_verify_blob_kzg_proof(conv.val, kzg_commitment, kzg_proof),
             <<"verify_blob_kzg_proof">>, "single")

\* blobs.iter().map(ssz_blob_to_crypto_blob).collect::<Result<Vec<_>, _>>():
\* the conversions in order, stopping at the first error.
RECURSIVE CollectFrom(_, _, _)
CollectFrom(blobs, k, acc) ==
    IF k > Len(blobs) THEN Ok(acc)
    ELSE LET conv == ssz_blob_to_crypto_blob(blobs[k]) IN
         IF ~conv.ok THEN Err(conv.err)
         ELSE CollectFrom(blobs, k + 1, Append(acc, conv.val))

RECURSIVE CollectLastError(_, _, _, _)
CollectLastError(blobs, k, acc, last) ==
    IF k > Len(blobs) THEN (IF last.ok THEN Ok(acc) ELSE last)
    ELSE LET conv == ssz_blob_to_crypto_blob(blobs[k]) IN
         IF ~conv.ok THEN CollectLastError(blobs, k + 1, acc, Err(conv.err))
         ELSE CollectLastError(blobs, k + 1, Append(acc, conv.val), last)

ConvertAll_LastError(blobs) == CollectLastError(blobs, 1, <<>>, Ok(<<>>))

ConvertAll(blobs) == CollectFrom(blobs, 1, <<>>)

\* The general path of validate_blobs, lines 46-54.
validate_blobs_general_DropLast(expected_kzg_commitments, blobs, kzg_proofs) ==
    LET conv == ConvertAll(blobs) IN
    IF ~conv.ok THEN Ret(Err(conv.err), <<>>, "convert")
    ELSE Ret(Kzg_verify_blob_kzg_proof_batch(
                 SubSeq(conv.val, 1, Len(conv.val) - 1),
                 SubSeq(expected_kzg_commitments, 1, Len(expected_kzg_commitments) - 1),
                 SubSeq(kzg_proofs, 1, Len(kzg_proofs) - 1)),
             <<"verify_blob_kzg_proof_batch">>, "batch")

validate_blobs_general(expected_kzg_commitments, blobs, kzg_proofs) ==
    LET conv == ConvertAll(blobs) IN
    IF ~conv.ok THEN Ret(Err(conv.err), <<>>, "convert")
    ELSE Ret(Kzg_verify_blob_kzg_proof_batch(conv.val, expected_kzg_commitments, kzg_proofs),
             <<"verify_blob_kzg_proof_batch">>, "batch")

\* The size-one branch of validate_blobs, lines 35-43.
validate_blobs_size_one(expected_kzg_commitments, blobs, kzg_proofs) ==
    LET blob == Get(blobs, 0)
        kzg_proof == Get(kzg_proofs, 0)
        kzg_commitment == Get(expected_kzg_commitments, 0)
    IN  IF blob.some /\ kzg_proof.some /\ kzg_commitment.some
        THEN validate_blob(blob.v, kzg_commitment.v, kzg_proof.v)
        ELSE Ret(Ok(FALSE), <<>>, "fallback")

validate_blobs_NoSizeOne(expected_kzg_commitments, blobs, kzg_proofs) ==
    validate_blobs_general(expected_kzg_commitments, blobs, kzg_proofs)

validate_blobs_AtMostOne(expected_kzg_commitments, blobs, kzg_proofs) ==
    IF Len(blobs) <= 1 /\ Len(kzg_proofs) <= 1 /\ Len(expected_kzg_commitments) <= 1
    THEN validate_blobs_size_one(expected_kzg_commitments, blobs, kzg_proofs)
    ELSE validate_blobs_general(expected_kzg_commitments, blobs, kzg_proofs)

validate_blobs(expected_kzg_commitments, blobs, kzg_proofs) ==
    IF Len(blobs) = 1 /\ Len(kzg_proofs) = 1 /\ Len(expected_kzg_commitments) = 1
    THEN validate_blobs_size_one(expected_kzg_commitments, blobs, kzg_proofs)
    ELSE validate_blobs_general(expected_kzg_commitments, blobs, kzg_proofs)

compute_blob_kzg_proof(blob, kzg_commitment) ==
    LET conv == ssz_blob_to_crypto_blob(blob) IN
    IF ~conv.ok THEN Ret(Err(conv.err), <<>>, "convert")
    ELSE Ret(Kzg_compute_blob_kzg_proof("none", conv.val, kzg_commitment),
             <<"compute_blob_kzg_proof">>, "engine")

blob_to_kzg_commitment(blob) ==
    LET conv == ssz_blob_to_crypto_blob(blob) IN
    IF ~conv.ok THEN Ret(Err(conv.err), <<>>, "convert")
    ELSE Ret(Kzg_blob_to_kzg_commitment("none", conv.val),
             <<"blob_to_kzg_commitment">>, "engine")

compute_kzg_proof(blob, z) ==
    LET conv == ssz_blob_to_crypto_blob(blob) IN
    IF ~conv.ok THEN Ret(Err(conv.err), <<>>, "convert")
    ELSE Ret(Kzg_compute_kzg_proof(conv.val, z), <<"compute_kzg_proof">>, "engine")

(***************************************************************************)
(* blob_sidecar.rs                                                         *)
(***************************************************************************)
\* u64::cmp
u64_cmp(a, b) == IF a < b THEN "Less" ELSE IF a > b THEN "Greater" ELSE "Equal"

\* What #[derive(Ord)] would give: block_root first, then index.
BlobIdentifier_cmp_Derived(self, other) ==
    IF self.block_root # other.block_root
    THEN u64_cmp(self.block_root, other.block_root)
    ELSE u64_cmp(self.index, other.index)

BlobIdentifier_cmp(self, other) == u64_cmp(self.index, other.index)

BlobIdentifier_partial_cmp(self, other) == Some(u64_cmp(self.index, other.index))

BlobSidecar_cmp(self, other) == u64_cmp(self.index, other.index)

BlobSidecar_partial_cmp(self, other) == Some(u64_cmp(self.index, other.index))

\* BlobSidecar::id
id(self) == [block_root |-> self.block_root, index |-> self.index]

\* KzgCommitment::default, KzgProof::default: all-zero encodings.
DefaultCommitment == [wf |-> TRUE, blob |-> <<>>]
DefaultProof == [wf |-> TRUE, blob |-> <<>>, c |-> <<>>]

\* BlobSidecar::default for an EthSpec whose blobs are bytesPerBlob long.
DefaultSidecar(bytesPerBlob) ==
    [block_root |-> 0, index |-> 0, slot |-> 0, block_parent_root |-> 0,
     proposer_index |-> 0, blob |-> [i \in 1 .. bytesPerBlob |-> 0],
     kzg_commitment |-> DefaultCommitment, kzg_proof |-> DefaultProof]

\* Blob::<T>::new (FixedVector::new): the length must be T::BytesPerBlob.
Blob_new(bytesPerBlob, bytes) ==
    IF Len(bytes) = bytesPerBlob THEN Ok(bytes)
    ELSE Err([kind |-> "OutOfBounds", got |-> Len(bytes)])

\* The errors of random_valid are strings: a message and the Debug form of
\* the error that caused it.
NoCause == [kind |-> "none", got |-> 0]
Msg(text, cause) == [msg |-> text, cause |-> cause]

\* The byte the loop of random_valid clears for field element i (line 103).
ChunkByteIndex_LastByte(i) ==
    LET first == checked_mul(i, BYTES_PER_FIELD_ELEMENT) IN
    IF first.some THEN Some(first.v + BYTES_PER_FIELD_ELEMENT - 1) ELSE None

ChunkByteIndex(i) == checked_mul(i, BYTES_PER_FIELD_ELEMENT)

\* The canonicalisation loop of random_valid, lines 102-107, from iteration i.
RECURSIVE CanonicalizeFrom(_, _)
CanonicalizeFrom(buf, i) ==
    IF i >= FIELD_ELEMENTS_PER_BLOB THEN Ok(buf)
    ELSE LET at == ChunkByteIndex(i) IN
         IF ~at.some THEN Err(Msg("overflow", NoCause))
         ELSE IF ~Get(buf, at.v).some
         THEN Err(Msg("blob byte index out of bounds", NoCause))
         ELSE CanonicalizeFrom([buf EXCEPT ![at.v + 1] = 0], i + 1)

\* What random_valid returns: its result, the engine functions it invoked,
\* whether the unwrap of line 111 met an Err, and the buffer after the loop.
RvRet(res, engine, didPanic, bytes) ==
    [res |-> res, calls |-> engine, panic |-> didPanic, bytes |-> bytes]

\* kzg.blob_to_kzg_commitment(&kzg_blob).map_err(..), lines 113-115.
commitment_or_error_OrDefault(fault, kzg_blob) ==
    LET c == Kzg_blob_to_kzg_commitment(fault, kzg_blob) IN
    IF c.ok THEN c ELSE Ok(DefaultCommitment)

commitment_or_error(fault, kzg_blob) ==
    LET c == Kzg_blob_to_kzg_commitment(fault, kzg_blob) IN
    IF c.ok THEN c ELSE Err(Msg("error computing kzg commitment", c.err))

\* random_valid after the loop, lines 109-126, on the loop's buffer.
random_valid_from(bytes, bytesPerBlob, fault) ==
    LET blob == Blob_new(bytesPerBlob, bytes) IN
    IF ~blob.ok
    THEN RvRet(Err(Msg("error constructing random blob", blob.err)), <<>>, FALSE, bytes)
    ELSE LET kzg_blob == blob_from_bytes(blob.val) IN
    IF ~kzg_blob.ok THEN RvRet(Err(Msg("panic", kzg_blob.err)), <<>>, TRUE, bytes)
    ELSE LET commitment == commitment_or_error(fault, kzg_blob.val) IN
    IF ~commitment.ok
    THEN RvRet(commitment, <<"blob_to_kzg_commitment">>, FALSE, bytes)
    ELSE LET proof == Kzg_compute_blob_kzg_proof(fault, kzg_blob.val, commitment.val) IN
    IF ~proof.ok
    THEN RvRet(Err(Msg("error computing kzg proof", proof.err)),
               <<"blob_to_kzg_commitment", "compute_blob_kzg_proof">>, FALSE, bytes)
    ELSE RvRet(Ok([DefaultSidecar(bytesPerBlob) EXCEPT
                      !.blob = blob.val,
                      !.kzg_commitment = commitment.val,
                      !.kzg_proof = proof.val]),
               <<"blob_to_kzg_commitment", "compute_blob_kzg_proof">>, FALSE, bytes)

random_valid_NoCanonicalize(fill, bytesPerBlob, fault) ==
    random_valid_from(fill, bytesPerBlob, fault)

random_valid(fill, bytesPerBlob, fault) ==
    LET canon == CanonicalizeFrom(fill, 0) IN
    IF ~canon.ok THEN RvRet(canon, <<>>, FALSE, fill)
    ELSE random_valid_from(canon.val, bytesPerBlob, fault)

(***************************************************************************)
(* Inputs.                                                                 *)
(***************************************************************************)
BlobA == [i \in 1 .. BYTES_PER_BLOB |-> 0]
BlobB == [i \in 1 .. BYTES_PER_BLOB |-> IF i = BYTES_PER_BLOB THEN 1 ELSE 0]
BlobNonCanonical == [i \in 1 .. BYTES_PER_BLOB |-> 255]
BlobShort == [i \in 1 .. (BYTES_PER_BLOB - 1) |-> 0]
BlobEmpty == << >>

TestBlobs == {BlobA, BlobNonCanonical, BlobShort, BlobEmpty}
TestCommitments == {CommitmentOf(BlobA), CommitmentOf(BlobB), MalformedCommitment}
TestProofs ==
    {ProofOf(BlobA, CommitmentOf(BlobA)), ProofOf(BlobB, CommitmentOf(BlobB)), MalformedProof}
TestPoints == {0, 1}

\* The bytes a randomness source may produce.
ByteValues == {0, 115, 255}
RandomFills == [1 .. BYTES_PER_BLOB -> ByteValues]

\* T::BytesPerBlob of the EthSpec in use; it is declared apart from the
\* preset's BYTES_PER_BLOB.
EthSpecBlobLengths == {BYTES_PER_BLOB, BYTES_PER_BLOB + 1}
EngineFaults == {"none", "commitment", "proof"}

Roots == {0, 1}
BlobIdentifiers == [block_root : Roots, index : 0 .. MaxIndex]
TestSidecars ==
    {[DefaultSidecar(BYTES_PER_BLOB) EXCEPT
         !.block_root = r, !.index = i, !.slot = s, !.blob = b] :
         r \in Roots, i \in 0 .. MaxIndex, s \in {0, 1}, b \in {BlobA, BlobB}}

SeqsUpTo(S, n) == UNION {[1 .. k -> S] : k \in 0 .. n}

(***************************************************************************)
(* The machine: one action per public function; a behaviour is one call.   *)
(***************************************************************************)
NoArgs == [none |-> TRUE]

Init ==
    /\ op = "init"
    /\ args = NoArgs
    /\ result = Ok(FALSE)
    /\ calls = << >>
    /\ path = "none"
    /\ panicked = FALSE
    /\ blob_bytes = << >>

ValidateBlob ==
    /\ op = "init"
    /\ \E b \in TestBlobs, c \in TestCommitments, p \in TestProofs :
        LET r == validate_blob(b, c, p) IN
        /\ op' = "validate_blob"
        /\ args' = [blob |-> b, commitment |-> c, proof |-> p]
        /\ result' = r.res
        /\ calls' = r.calls
        /\ path' = r.path
        /\ panicked' = FALSE
        /\ blob_bytes' = << >>

ValidateBlobs ==
    /\ op = "init"
    /\ \E cs \in SeqsUpTo(TestCommitments, MaxBatch),
          bs \in SeqsUpTo(TestBlobs, MaxBatch),
          ps \in SeqsUpTo(TestProofs, MaxBatch) :
        LET r == validate_blobs(cs, bs, ps) IN
        /\ op' = "validate_blobs"
        /\ args' = [commitments |-> cs, blobs |-> bs, proofs |-> ps]
        /\ result' = r.res
        /\ calls' = r.calls
        /\ path' = r.path
        /\ panicked' = FALSE
        /\ blob_bytes' = << >>

ComputeBlobKzgProof ==
    /\ op = "init"
    /\ \E b \in TestBlobs, c \in TestCommitments :
        LET r == compute_blob_kzg_proof(b, c) IN
        /\ op' = "compute_blob_kzg_proof"
        /\ args' = [blob |-> b, commitment |-> c]
        /\ result' = r.res
        /\ calls' = r.calls
        /\ path' = r.path
        /\ panicked' = FALSE
        /\ blob_bytes' = << >>

BlobToKzgCommitment ==
    /\ op = "init"
    /\ \E b \in TestBlobs :
        LET r == blob_to_kzg_commitment(b) IN
        /\ op' = "blob_to_kzg_commitment"
        /\ args' = [blob |-> b]
        /\ result' = r.res
        /\ calls' = r.calls
        /\ path' = r.path
        /\ panicked' = FALSE
        /\ blob_bytes' = << >>

ComputeKzgProof ==
    /\ op = "init"
    /\ \E b \in TestBlobs, z \in TestPoints :
        LET r == compute_kzg_proof(b, z) IN
        /\ op' = "compute_kzg_proof"
        /\ args' = [blob |-> b, z |-> z]
        /\ result' = r.res
        /\ calls' = r.calls
        /\ path' = r.path
        /\ panicked' = FALSE
        /\ blob_bytes' = << >>

RandomValid ==
    /\ op = "init"
    /\ \E fill \in RandomFills, n \in EthSpecBlobLengths, fault \in EngineFaults :
        LET r == random_valid(fill, n, fault) IN
        /\ op' = "random_valid"
        /\ args' = [fill |-> fill, bytesPerBlob |-> n, fault |-> fault]
        /\ result' = r.res
        /\ calls' = r.calls
        /\ path' = "none"
        /\ panicked' = r.panic
        /\ blob_bytes' = r.bytes

CompareIdentifiers ==
    /\ op = "init"
    /\ \E a \in BlobIdentifiers, b \in BlobIdentifiers :
        /\ op' = "BlobIdentifier::cmp"
        /\ args' = [self |-> a, other |-> b]
        /\ result' = Ok([cmp |-> BlobIdentifier_cmp(a, b),
                         partial_cmp |-> BlobIdentifier_partial_cmp(a, b)])
        /\ calls' = << >>
        /\ path' = "none"
        /\ panicked' = FALSE
        /\ blob_bytes' = << >>

CompareSidecars ==
    /\ op = "init"
    /\ \E a \in TestSidecars, b \in TestSidecars :
        /\ op' = "BlobSidecar::cmp"
        /\ args' = [self |-> a, other |-> b]
        /\ result' = Ok([cmp |-> BlobSidecar_cmp(a, b),
                         partial_cmp |-> BlobSidecar_partial_cmp(a, b)])
        /\ calls' = << >>
        /\ path' = "none"
        /\ panicked' = FALSE
        /\ blob_bytes' = << >>

Next ==
    \/ ValidateBlob
    \/ ValidateBlobs
    \/ ComputeBlobKzgProof
    \/ BlobToKzgCommitment
    \/ ComputeKzgProof
    \/ RandomValid
    \/ CompareIdentifiers
    \/ CompareSidecars

Spec == Init /\ [][Next]_vars

(***************************************************************************)
(* Properties.                                                             *)
(***************************************************************************)
IsTrue(r) == r.ok /\ r.val = TRUE
IsFalse(r) == r.ok /\ r.val = FALSE
SameResult(r1, r2) ==
    /\ r1.ok = r2.ok
    /\ IF r1.ok THEN r1.val = r2.val ELSE r1.err = r2.err

Range(s) == {s[i] : i \in 1 .. Len(s)}

BatchCall == op = "validate_blobs"
Aligned ==
    /\ Len(args.commitments) = Len(args.blobs)
    /\ Len(args.proofs) = Len(args.blobs)
SizeOne ==
    Len(args.commitments) = 1 /\ Len(args.blobs) = 1 /\ Len(args.proofs) = 1

\* The result of validate_blob on the i-th triplet of an aligned batch.
SingleOf(i) == validate_blob(args.blobs[i], args.commitments[i], args.proofs[i]).res

\* C1: validate_blobs called with sequences of unequal lengths returns
\* Ok(false), never an error.
C1_MisalignedReturnsFalse ==
    (BatchCall /\ ~Aligned) => IsFalse(result)

\* C2: with exactly one commitment, one blob and one proof, validate_blobs
\* returns what validate_blob returns on that triplet (the same boolean or
\* the same error), the engine's batch verification is not invoked and the
\* Ok(false) fallback is not taken.
C2_SizeOneIsSingle ==
    (BatchCall /\ SizeOne) =>
        /\ SameResult(result, SingleOf(1))
        /\ "verify_blob_kzg_proof_batch" \notin Range(calls)
        /\ path # "fallback"

C2_Witness ==
    /\ BatchCall /\ SizeOne
    /\ IsTrue(result)
    /\ calls = <<"verify_blob_kzg_proof">>

\* C3: for N >= 2 aligned triplets, validate_blobs returns true if and only
\* if validate_blob returns true for every one of the N triplets.
C3_BatchIsConjunction ==
    (BatchCall /\ Aligned /\ Len(args.blobs) >= 2) =>
        (IsTrue(result) <=> \A i \in 1 .. Len(args.blobs) : IsTrue(SingleOf(i)))

C3_Witness ==
    /\ BatchCall /\ Aligned /\ Len(args.blobs) >= 2
    /\ IsFalse(result)
    /\ \A i \in 1 .. (Len(args.blobs) - 1) : IsTrue(SingleOf(i))
    /\ IsFalse(SingleOf(Len(args.blobs)))

\* C4: validate_blobs called with three empty sequences returns true.
C4_EmptyBatchIsTrue ==
    (BatchCall /\ Len(args.commitments) = 0 /\ Len(args.blobs) = 0 /\ Len(args.proofs) = 0)
        => IsTrue(result)

C4_Witness ==
    /\ BatchCall
    /\ args.commitments = << >> /\ args.blobs = << >> /\ args.proofs = << >>
    /\ calls = <<"verify_blob_kzg_proof_batch">>
    /\ IsTrue(result)

\* A blob the engine accepts: the right length and canonical field elements.
BlobAccepted(blob) ==
    IF Len(blob) = BYTES_PER_BLOB THEN CanonicalBlob(blob) ELSE FALSE

EncodingsWellFormed == args.commitment.wf /\ args.proof.wf

\* C5 as stated: validate_blob returns false for every triplet with well
\* formed encodings that is cryptographically invalid, fails with an error
\* only when the commitment or the proof encoding is malformed, and never
\* reports a malformed encoding as false.
C5_ErrorOnlyOnMalformedEncoding ==
    op = "validate_blob" =>
        /\ (EncodingsWellFormed
              /\ ~TripletValid(args.blob, args.commitment, args.proof)) => IsFalse(result)
        /\ ~result.ok => ~EncodingsWellFormed
        /\ ~EncodingsWellFormed => ~result.ok

\* C5 as amended: validate_blob returns false, not an error, for every
\* triplet that is structurally valid (well formed commitment and proof, a
\* blob of BYTES_PER_BLOB bytes with canonical field elements) and
\* cryptographically invalid; it fails with an error only when an encoding
\* is malformed, the blob fails conversion or the engine rejects the blob;
\* and a structurally invalid triplet is never reported as false.
C5_ErrorOnlyOnMalformedRequest ==
    op = "validate_blob" =>
        /\ (EncodingsWellFormed /\ BlobAccepted(args.blob)
              /\ ~TripletValid(args.blob, args.commitment, args.proof)) => IsFalse(result)
        /\ ~result.ok => (~EncodingsWellFormed \/ ~BlobAccepted(args.blob))
        /\ (~EncodingsWellFormed \/ ~BlobAccepted(args.blob)) => ~result.ok
        /\ (Len(args.blob) # BYTES_PER_BLOB) =>
               (~result.ok /\ result.err = InvalidBytesLength(Len(args.blob)))

C5_Witness ==
    /\ op = "validate_blob"
    /\ EncodingsWellFormed /\ BlobAccepted(args.blob)
    /\ ~TripletValid(args.blob, args.commitment, args.proof)
    /\ IsFalse(result)
    /\ calls = <<"verify_blob_kzg_proof">>

CompareCall == op \in {"BlobIdentifier::cmp", "BlobSidecar::cmp"}

\* C6: the ordering of BlobIdentifier and of BlobSidecar is that of the
\* index alone: cmp and partial_cmp give Less, Equal, Greater exactly when
\* self.index is below, equal to, above other.index, whatever the other
\* fields are.
C6_OrderingByIndexOnly ==
    CompareCall =>
        LET c == result.val.cmp
            a == args.self.index
            b == args.other.index
        IN  /\ (c = "Less") <=> (a < b)
            /\ (c = "Equal") <=> (a = b)
            /\ (c = "Greater") <=> (a > b)
            /\ result.val.partial_cmp.some
            /\ result.val.partial_cmp.v = c

C6_Witness ==
    /\ op = "BlobIdentifier::cmp"
    /\ args.self.block_root # args.other.block_root
    /\ args.self.index = args.other.index
    /\ result.val.cmp = "Equal"

RandomValidCall == op = "random_valid"

\* The configuration is consistent: the EthSpec's blob length is the preset's.
SizesAgree == args.bytesPerBlob = BYTES_PER_BLOB

\* The fill with the first byte of every field element cleared.
TopBytesCleared(fill) ==
    [j \in 1 .. Len(fill) |-> IF (j - 1) % BYTES_PER_FIELD_ELEMENT = 0 THEN 0 ELSE fill[j]]

\* C7: random_valid yields, for every fill of the randomness source, a
\* sidecar that validate_blob accepts: its blob is the canonicalised fill,
\* its commitment the engine's commitment of that blob, its proof the
\* engine's proof for that blob and commitment, its linkage metadata
\* defaulted; and it does yield one whenever the engine does not fail.
C7_RandomValidIsValid ==
    RandomValidCall =>
        /\ (SizesAgree /\ args.fault = "none") => result.ok
        /\ result.ok =>
            LET sc == result.val IN
            /\ IsTrue(validate_blob(sc.blob, sc.kzg_commitment, sc.kzg_proof).res)
            /\ sc.blob = TopBytesCleared(args.fill)
            /\ SameResult(Ok(sc.kzg_commitment), Kzg_blob_to_kzg_commitment("none", sc.blob))
            /\ SameResult(Ok(sc.kzg_proof),
                          Kzg_compute_blob_kzg_proof("none", sc.blob, sc.kzg_commitment))
            /\ sc.block_root = 0 /\ sc.index = 0 /\ sc.slot = 0
            /\ sc.block_parent_root = 0 /\ sc.proposer_index = 0

C7_Witness ==
    /\ RandomValidCall
    /\ result.ok
    /\ args.fill # TopBytesCleared(args.fill)
    /\ ~CanonicalBlob(args.fill)
    /\ calls = <<"blob_to_kzg_commitment", "compute_blob_kzg_proof">>

C9_CanonicalizeClearsTopBytes ==
    RandomValidCall =>
        /\ Len(blob_bytes) = BYTES_PER_BLOB
        /\ \A i \in 0 .. (FIELD_ELEMENTS_PER_BLOB - 1) :
               blob_bytes[i * BYTES_PER_FIELD_ELEMENT + 1] = 0
        /\ \A j \in 1 .. BYTES_PER_BLOB :
               ((j - 1) % BYTES_PER_FIELD_ELEMENT # 0) => blob_bytes[j] = args.fill[j]
        /\ \A i \in 0 .. (FIELD_ELEMENTS_PER_BLOB - 1) :
               BelowModulus(FieldElement(blob_bytes, i))

C9_Witness ==
    /\ RandomValidCall
    /\ \A i \in 0 .. (FIELD_ELEMENTS_PER_BLOB - 1) :
           ~BelowModulus(FieldElement(args.fill, i))
    /\ CanonicalBlob(blob_bytes)
    /\ \E j \in 1 .. BYTES_PER_BLOB : blob_bytes[j] # 0

BadLength(blob) == Len(blob) # BYTES_PER_BLOB

SingleBlobCall ==
    op \in {"validate_blob", "compute_blob_kzg_proof", "blob_to_kzg_commitment",
            "compute_kzg_proof"}

\* The first (lowest) position of a blob of the wrong length in the batch.
FirstBad ==
    CHOOSE k \in 1 .. Len(args.blobs) :
        /\ BadLength(args.blobs[k])
        /\ \A j \in 1 .. (k - 1) : ~BadLength(args.blobs[j])

\* C10: a blob whose length is not BYTES_PER_BLOB fails conversion with the
\* size error, and conversion precedes every engine call: in the functions
\* taking one blob and in validate_blobs a blob of the wrong length makes
\* the call return the conversion error of the first such blob with no
\* engine function invoked; when every blob converts, the general path of
\* validate_blobs invokes the engine's batch verification, once.
C10_ConversionBeforeEngine ==
    /\ SingleBlobCall =>
           IF BadLength(args.blob)
           THEN /\ ~result.ok
                /\ result.err = InvalidBytesLength(Len(args.blob))
                /\ calls = << >>
           ELSE Len(calls) = 1
    /\ BatchCall =>
           IF \E k \in 1 .. Len(args.blobs) : BadLength(args.blobs[k])
           THEN /\ ~result.ok
                /\ result.err = InvalidBytesLength(Len(args.blobs[FirstBad]))
                /\ calls = << >>
           ELSE calls = IF SizeOne THEN <<"verify_blob_kzg_proof">>
                        ELSE <<"verify_blob_kzg_proof_batch">>

C10_Witness ==
    /\ BatchCall
    /\ Len(args.blobs) >= 2
    /\ BadLength(args.blobs[1])
    /\ \E k \in 2 .. Len(args.blobs) :
           BadLength(args.blobs[k]) /\ Len(args.blobs[k]) # Len(args.blobs[1])
    /\ ~result.ok
    /\ calls = << >>

====
